---- MODULE Spec2Model ----
(***************************************************************************)
(* Span of package constraint: the range between two composite keys, with  *)
(* an inclusive or exclusive boundary at each end, its ordering, its       *)
(* in-place intersection/union/normalisation and its immutable flag.       *)
(*                                                                         *)
(* The Span methods are translated from the Go source.  The Key type and   *)
(* the KeyContext live in another file of the package; they are modelled   *)
(* from their contract (extended-key comparison, Next/Prev).               *)
(***************************************************************************)
EXTENDS Integers, Sequences, FiniteSets, TLC

VARIABLES keyCtx, spans, last

vars == <<keyCtx, spans, last>>

(***************************************************************************)
(* Bounds of the model.                                                    *)
(***************************************************************************)
\* Datum values handed to Set are drawn from 0 .. MaxVal.
MaxVal == 1

Vals == 0 .. MaxVal

\* The empty key and the one-column keys.
ShortKeys == {<<>>} \cup {<<a>> : a \in Vals}

\* The empty key, the one-column and the two-column keys.
Keys == ShortKeys \cup {<<a, b>> : a \in Vals, b \in Vals}

\* The two Span objects of the program.
SpanIds == {"sp", "other"}

Peer(id) == IF id = "sp" THEN "other" ELSE "sp"

(***************************************************************************)
(* SpanBoundary and KeyExtension (both are Go bools).                      *)
(***************************************************************************)
IncludeBoundary == FALSE

ExcludeBoundary == TRUE

Boundaries == {IncludeBoundary, ExcludeBoundary}

ExtendLow == FALSE

ExtendHigh == TRUE

\* KeyExtension.ToCmp: ExtendLow sorts before, ExtendHigh after.
ToCmp(ext) == IF ext = ExtendHigh THEN 1 ELSE -1

(***************************************************************************)
(* KeyContext: the column type decides whether a datum has a successor     *)
(* (Next) and a predecessor (Prev): integers have both, strings only Next, *)
(* decimals neither.                                                       *)
(***************************************************************************)
IntCtx == [hasNext |-> TRUE, hasPrev |-> TRUE]

StringCtx == [hasNext |-> TRUE, hasPrev |-> FALSE]

DecimalCtx == [hasNext |-> FALSE, hasPrev |-> FALSE]

KeyCtxs == {IntCtx, StringCtx, DecimalCtx}

(***************************************************************************)
(* Key.                                                                    *)
(***************************************************************************)
IsEmpty(k) == Len(k) = 0

DatumCompare(a, b) == IF a < b THEN -1 ELSE IF a > b THEN 1 ELSE 0

Min(a, b) == IF a < b THEN a ELSE b

\* Index of the first column (within the common prefix) where k and l differ,
\* 0 when the common prefix is equal.
FirstDiff(k, l) ==
    LET D == {i \in 1 .. Min(Len(k), Len(l)) : k[i] # l[i]}
    IN  IF D = {} THEN 0 ELSE CHOOSE i \in D : \A j \in D : i <= j

\* Key.Compare: compares the keys column by column; when one key is a prefix
\* of the other, the shorter key's extension decides (k/Low sorts before
\* every key k/..., k/High after); equal keys are ordered by their extensions.
KeyCompare(ctx, k, l, kext, lext) ==
    LET d == FirstDiff(k, l)
    IN  IF d # 0 THEN DatumCompare(k[d], l[d])
        ELSE IF Len(k) < Len(l) THEN ToCmp(kext)
        ELSE IF Len(k) > Len(l) THEN -ToCmp(lext)
        ELSE IF kext = lext THEN 0
        ELSE ToCmp(kext)

\* Key.Next: the key whose last column is the successor of k's last column.
KeyNext(ctx, k) ==
    IF ctx.hasNext /\ ~IsEmpty(k)
    THEN [key |-> [k EXCEPT ![Len(k)] = k[Len(k)] + 1], ok |-> TRUE]
    ELSE [key |-> <<>>, ok |-> FALSE]

\* Key.Prev: the key whose last column is the predecessor of k's last column.
KeyPrev(ctx, k) ==
    IF ctx.hasPrev /\ ~IsEmpty(k)
    THEN [key |-> [k EXCEPT ![Len(k)] = k[Len(k)] - 1], ok |-> TRUE]
    ELSE [key |-> <<>>, ok |-> FALSE]

(***************************************************************************)
(* Span.                                                                   *)
(***************************************************************************)
\* The zero value of the struct: Span{}.
ZeroSpan ==
    [start |-> <<>>, end |-> <<>>,
     startBoundary |-> IncludeBoundary, endBoundary |-> IncludeBoundary,
     immutable |-> FALSE]

NoPanic == "none"

\* What a call leaves behind: the receiver, the returned bool (ret) or int
\* (cmp), and the panic message if the call panicked.
Outcome(sp, ret, cmp, panic) == [sp |-> sp, ret |-> ret, cmp |-> cmp, panic |-> panic]

Returns(sp) == Outcome(sp, FALSE, 0, NoPanic)

Panics(sp, msg) == Outcome(sp, FALSE, 0, msg)

startExt(sp) == sp.startBoundary

\* endExt without the inversion.
endExtNotInverted(sp) == sp.endBoundary

endExt(sp) == ~sp.endBoundary

IsUnconstrained(sp) == IsEmpty(sp.start) /\ IsEmpty(sp.end)

\* Set without its immutable check.
SetUnchecked(ctx, sp, start, startBoundary, end, endBoundary) ==
    LET w == [sp EXCEPT !.start = start, !.startBoundary = startBoundary,
                        !.end = end, !.endBoundary = endBoundary]
    IN  IF IsEmpty(start) /\ IsEmpty(end)
        THEN Panics(sp, "unconstrained span should never be used")
        ELSE IF IsEmpty(start) /\ startBoundary = ExcludeBoundary
        THEN Panics(sp, "an empty start boundary must be inclusive")
        ELSE IF ~IsEmpty(start) /\ IsEmpty(end) /\ endBoundary = ExcludeBoundary
        THEN Panics(sp, "an empty end boundary must be inclusive")
        ELSE IF KeyCompare(ctx, w.start, w.end, startExt(w), endExt(w)) >= 0
        THEN Panics(w, "span cannot be empty")
        ELSE Returns(w)

\* Set whose last check lets a span through whose start equals its end.
SetAcceptsEmpty(ctx, sp, start, startBoundary, end, endBoundary) ==
    LET w == [sp EXCEPT !.start = start, !.startBoundary = startBoundary,
                        !.end = end, !.endBoundary = endBoundary]
    IN  IF sp.immutable THEN Panics(sp, "mutation disallowed")
        ELSE IF IsEmpty(start) /\ IsEmpty(end)
        THEN Panics(sp, "unconstrained span should never be used")
        ELSE IF IsEmpty(start) /\ startBoundary = ExcludeBoundary
        THEN Panics(sp, "an empty start boundary must be inclusive")
        ELSE IF ~IsEmpty(start) /\ IsEmpty(end) /\ endBoundary = ExcludeBoundary
        THEN Panics(sp, "an empty end boundary must be inclusive")
        ELSE IF KeyCompare(ctx, w.start, w.end, startExt(w), endExt(w)) > 0
        THEN Panics(w, "span cannot be empty")
        ELSE Returns(w)

Set(ctx, sp, start, startBoundary, end, endBoundary) ==
    IF sp.immutable THEN Panics(sp, "mutation disallowed")
    ELSE IF IsEmpty(start) /\ IsEmpty(end)
    THEN Panics(sp, "unconstrained span should never be used")
    ELSE IF IsEmpty(start) /\ startBoundary = ExcludeBoundary
    THEN Panics(sp, "an empty start boundary must be inclusive")
    ELSE IF ~IsEmpty(start) /\ IsEmpty(end) /\ endBoundary = ExcludeBoundary
    THEN Panics(sp, "an empty end boundary must be inclusive")
    ELSE LET w == [sp EXCEPT !.start = start, !.startBoundary = startBoundary,
                             !.end = end, !.endBoundary = endBoundary]
         IN  IF KeyCompare(ctx, w.start, w.end, startExt(w), endExt(w)) >= 0
             THEN Panics(w, "span cannot be empty")
             ELSE Returns(w)

CompareStarts(ctx, sp, other) ==
    KeyCompare(ctx, sp.start, other.start, startExt(sp), startExt(other))

CompareEnds(ctx, sp, other) ==
    KeyCompare(ctx, sp.end, other.end, endExt(sp), endExt(other))

\* Compare that returns the comparison of the starts only when it is positive
\* (> 0 for != 0).
CompareStartsOnlyIfGreater(ctx, sp, other) ==
    IF CompareStarts(ctx, sp, other) > 0 THEN CompareStarts(ctx, sp, other)
    ELSE IF CompareEnds(ctx, sp, other) # 0 THEN CompareEnds(ctx, sp, other)
    ELSE 0

Compare(ctx, sp, other) ==
    IF CompareStarts(ctx, sp, other) # 0 THEN CompareStarts(ctx, sp, other)
    ELSE IF CompareEnds(ctx, sp, other) # 0 THEN CompareEnds(ctx, sp, other)
    ELSE 0

\* StartsAfter that wants the start strictly after the other end (> 0 for >= 0).
StartsAfterStrictly(ctx, sp, other) ==
    KeyCompare(ctx, sp.start, other.end, startExt(sp), endExt(other)) > 0

StartsAfter(ctx, sp, other) ==
    KeyCompare(ctx, sp.start, other.end, startExt(sp), endExt(other)) >= 0

\* TryIntersectWith without its second emptiness test (this span ending at or
\* before the start of the other).
TryIntersectWithOneSided(ctx, sp, other) ==
    LET cmpStarts == CompareStarts(ctx, sp, other)
        cmpEnds == CompareEnds(ctx, sp, other)
        s1 == IF cmpStarts < 0
              THEN [sp EXCEPT !.start = other.start, !.startBoundary = other.startBoundary]
              ELSE sp
        s2 == IF cmpEnds > 0
              THEN [s1 EXCEPT !.end = other.end, !.endBoundary = other.endBoundary]
              ELSE s1
    IN  IF sp.immutable THEN Panics(sp, "mutation disallowed")
        ELSE IF cmpStarts > 0
                /\ KeyCompare(ctx, sp.start, other.end, startExt(sp), endExt(other)) >= 0
        THEN Outcome(sp, FALSE, 0, NoPanic)
        ELSE Outcome(s2, TRUE, 0, NoPanic)

\* TryIntersectWith whose first emptiness test lets touching spans through
\* (> 0 for >= 0).
TryIntersectWithTouching(ctx, sp, other) ==
    LET cmpStarts == CompareStarts(ctx, sp, other)
        cmpEnds == CompareEnds(ctx, sp, other)
        s1 == IF cmpStarts < 0
              THEN [sp EXCEPT !.start = other.start, !.startBoundary = other.startBoundary]
              ELSE sp
        s2 == IF cmpEnds > 0
              THEN [s1 EXCEPT !.end = other.end, !.endBoundary = other.endBoundary]
              ELSE s1
    IN  IF sp.immutable THEN Panics(sp, "mutation disallowed")
        ELSE IF cmpStarts > 0
                /\ KeyCompare(ctx, sp.start, other.end, startExt(sp), endExt(other)) > 0
        THEN Outcome(sp, FALSE, 0, NoPanic)
        ELSE IF cmpEnds < 0
                /\ KeyCompare(ctx, sp.end, other.start, endExt(sp), startExt(other)) <= 0
        THEN Outcome(sp, FALSE, 0, NoPanic)
        ELSE Outcome(s2, TRUE, 0, NoPanic)

TryIntersectWith(ctx, sp, other) ==
    LET cmpStarts == CompareStarts(ctx, sp, other)
        cmpEnds == CompareEnds(ctx, sp, other)
        s1 == IF cmpStarts < 0
              THEN [sp EXCEPT !.start = other.start, !.startBoundary = other.startBoundary]
              ELSE sp
        s2 == IF cmpEnds > 0
              THEN [s1 EXCEPT !.end = other.end, !.endBoundary = other.endBoundary]
              ELSE s1
    IN  IF sp.immutable THEN Panics(sp, "mutation disallowed")
        ELSE IF cmpStarts > 0
                /\ KeyCompare(ctx, sp.start, other.end, startExt(sp), endExt(other)) >= 0
        THEN Outcome(sp, FALSE, 0, NoPanic)
        ELSE IF cmpEnds < 0
                /\ KeyCompare(ctx, sp.end, other.start, endExt(sp), startExt(other)) <= 0
        THEN Outcome(sp, FALSE, 0, NoPanic)
        ELSE Outcome(s2, TRUE, 0, NoPanic)

\* TryUnionWith that takes the other span's keys and leaves the boundaries.
TryUnionWithKeysOnly(ctx, sp, other) ==
    LET cmpStartKeys == CompareStarts(ctx, sp, other)
        cmp == IF cmpStartKeys < 0
               THEN KeyCompare(ctx, sp.end, other.start, endExt(sp), startExt(other))
               ELSE IF cmpStartKeys > 0
               THEN KeyCompare(ctx, other.end, sp.start, endExt(other), startExt(sp))
               ELSE 0
        cmpEndKeys == CompareEnds(ctx, sp, other)
        s1 == IF cmpStartKeys > 0 THEN [sp EXCEPT !.start = other.start] ELSE sp
        s2 == IF cmpEndKeys < 0 THEN [s1 EXCEPT !.end = other.end] ELSE s1
    IN  IF sp.immutable THEN Panics(sp, "mutation disallowed")
        ELSE IF cmp < 0 THEN Outcome(sp, FALSE, 0, NoPanic)
        ELSE Outcome(s2, TRUE, 0, NoPanic)

\* TryUnionWith that takes touching spans for spans with a gap (<= 0 for < 0).
TryUnionWithStrict(ctx, sp, other) ==
    LET cmpStartKeys == CompareStarts(ctx, sp, other)
        cmp == IF cmpStartKeys < 0
               THEN KeyCompare(ctx, sp.end, other.start, endExt(sp), startExt(other))
               ELSE IF cmpStartKeys > 0
               THEN KeyCompare(ctx, other.end, sp.start, endExt(other), startExt(sp))
               ELSE 1
        cmpEndKeys == CompareEnds(ctx, sp, other)
        s1 == IF cmpStartKeys > 0
              THEN [sp EXCEPT !.start = other.start, !.startBoundary = other.startBoundary]
              ELSE sp
        s2 == IF cmpEndKeys < 0
              THEN [s1 EXCEPT !.end = other.end, !.endBoundary = other.endBoundary]
              ELSE s1
    IN  IF sp.immutable THEN Panics(sp, "mutation disallowed")
        ELSE IF cmp <= 0 THEN Outcome(sp, FALSE, 0, NoPanic)
        ELSE Outcome(s2, TRUE, 0, NoPanic)

TryUnionWith(ctx, sp, other) ==
    LET cmpStartKeys == CompareStarts(ctx, sp, other)
        cmp == IF cmpStartKeys < 0
               THEN KeyCompare(ctx, sp.end, other.start, endExt(sp), startExt(other))
               ELSE IF cmpStartKeys > 0
               THEN KeyCompare(ctx, other.end, sp.start, endExt(other), startExt(sp))
               ELSE 0
        cmpEndKeys == CompareEnds(ctx, sp, other)
        s1 == IF cmpStartKeys > 0
              THEN [sp EXCEPT !.start = other.start, !.startBoundary = other.startBoundary]
              ELSE sp
        s2 == IF cmpEndKeys < 0
              THEN [s1 EXCEPT !.end = other.end, !.endBoundary = other.endBoundary]
              ELSE s1
    IN  IF sp.immutable THEN Panics(sp, "mutation disallowed")
        ELSE IF cmp < 0 THEN Outcome(sp, FALSE, 0, NoPanic)
        ELSE Outcome(s2, TRUE, 0, NoPanic)

\* PreferInclusive that converts both sides or neither.
PreferInclusiveAllOrNothing(ctx, sp) ==
    LET n == KeyNext(ctx, sp.start)
        p == KeyPrev(ctx, sp.end)
        both == (sp.startBoundary = ExcludeBoundary => n.ok)
                /\ (sp.endBoundary = ExcludeBoundary => p.ok)
        s1 == IF both /\ sp.startBoundary = ExcludeBoundary
              THEN [sp EXCEPT !.start = n.key, !.startBoundary = IncludeBoundary]
              ELSE sp
        s2 == IF both /\ sp.endBoundary = ExcludeBoundary
              THEN [s1 EXCEPT !.end = p.key, !.endBoundary = IncludeBoundary]
              ELSE s1
    IN  IF sp.immutable THEN Panics(sp, "mutation disallowed")
        ELSE Returns(s2)

PreferInclusive(ctx, sp) ==
    LET n == KeyNext(ctx, sp.start)
        s1 == IF sp.startBoundary = ExcludeBoundary /\ n.ok
              THEN [sp EXCEPT !.start = n.key, !.startBoundary = IncludeBoundary]
              ELSE sp
        p == KeyPrev(ctx, s1.end)
        s2 == IF s1.endBoundary = ExcludeBoundary /\ p.ok
              THEN [s1 EXCEPT !.end = p.key, !.endBoundary = IncludeBoundary]
              ELSE s1
    IN  IF sp.immutable THEN Panics(sp, "mutation disallowed")
        ELSE Returns(s2)

\* Copy without the reset of the immutable flag.
CopyKeepsImmutable(sp) == sp

Copy(sp) == [sp EXCEPT !.immutable = FALSE]

makeImmutable(sp) == [sp EXCEPT !.immutable = TRUE]

(***************************************************************************)
(* The program: two Span objects, one key context, and the calls made on   *)
(* them.  A panic is not recovered: it ends the program.                   *)
(***************************************************************************)
\* The last call: the method, its receiver, the keys and boundaries handed to
\* it (Set only), what it returned and whether it panicked.
Call(op, recv, args, out) ==
    [op |-> op, recv |-> recv, args |-> args,
     ret |-> out.ret, cmp |-> out.cmp, panic |-> out.panic]

Running == last.panic = NoPanic

\* The spans a successful Set on a new Span produces, with keys drawn from K.
Populated(ctx, K) ==
    {o.sp : o \in {x \in {Set(ctx, ZeroSpan, s, sb, e, eb) :
                              s \in K, e \in K, sb \in Boundaries, eb \in Boundaries} :
                   x.panic = NoPanic}}

ApplyWith(op, recv, args, out) ==
    /\ spans' = [spans EXCEPT ![recv] = out.sp]
    /\ last' = Call(op, recv, args, out)
    /\ UNCHANGED keyCtx

Apply(op, recv, out) == ApplyWith(op, recv, <<>>, out)

\* recv.Set(keyCtx, start, sb, end, eb), for a receiver of R and keys of K.
CallSet(R, K) ==
    /\ Running
    /\ \E recv \in R, start \in K, end \in K, sb \in Boundaries, eb \in Boundaries :
          ApplyWith("Set", recv, <<start, sb, end, eb>>,
                    Set(keyCtx, spans[recv], start, sb, end, eb))

CallTryIntersectWith ==
    /\ Running
    /\ \E recv \in SpanIds :
          Apply("TryIntersectWith", recv, TryIntersectWith(keyCtx, spans[recv], spans[Peer(recv)]))

CallTryUnionWith ==
    /\ Running
    /\ \E recv \in SpanIds :
          Apply("TryUnionWith", recv, TryUnionWith(keyCtx, spans[recv], spans[Peer(recv)]))

CallPreferInclusive ==
    /\ Running
    /\ \E recv \in SpanIds :
          Apply("PreferInclusive", recv, PreferInclusive(keyCtx, spans[recv]))

\* peer = recv.Copy(): the copy is a new object, held from now on by the
\* program's other variable.  A frozen span belongs to its constraint and is
\* not dropped this way.
CallCopy ==
    /\ Running
    /\ \E recv \in SpanIds :
          /\ ~spans[Peer(recv)].immutable
          /\ spans' = [spans EXCEPT ![Peer(recv)] = Copy(spans[recv])]
          /\ last' = Call("Copy", recv, <<>>, Returns(spans[recv]))
          /\ UNCHANGED keyCtx

CallMakeImmutable ==
    /\ Running
    /\ \E recv \in SpanIds :
          Apply("makeImmutable", recv, Returns(makeImmutable(spans[recv])))

CallCompare ==
    /\ Running
    /\ \E recv \in SpanIds :
          Apply("Compare", recv,
                Outcome(spans[recv], FALSE, Compare(keyCtx, spans[recv], spans[Peer(recv)]), NoPanic))

CallCompareStarts ==
    /\ Running
    /\ \E recv \in SpanIds :
          Apply("CompareStarts", recv,
                Outcome(spans[recv], FALSE, CompareStarts(keyCtx, spans[recv], spans[Peer(recv)]), NoPanic))

CallCompareEnds ==
    /\ Running
    /\ \E recv \in SpanIds :
          Apply("CompareEnds", recv,
                Outcome(spans[recv], FALSE, CompareEnds(keyCtx, spans[recv], spans[Peer(recv)]), NoPanic))

CallStartsAfter ==
    /\ Running
    /\ \E recv \in SpanIds :
          Apply("StartsAfter", recv,
                Outcome(spans[recv], StartsAfter(keyCtx, spans[recv], spans[Peer(recv)]), 0, NoPanic))

CallIsUnconstrained ==
    /\ Running
    /\ \E recv \in SpanIds :
          Apply("IsUnconstrained", recv, Outcome(spans[recv], IsUnconstrained(spans[recv]), 0, NoPanic))

(***************************************************************************)
(* Spec: the life of two Span objects, from construction on, under every   *)
(* sequence of calls; Set is handed short keys.                            *)
(***************************************************************************)
Init ==
    /\ keyCtx \in KeyCtxs
    /\ spans = [id \in SpanIds |-> ZeroSpan]
    /\ last = Call("new", "sp", <<>>, Returns(ZeroSpan))

Next ==
    \/ CallSet(SpanIds, ShortKeys)
    \/ CallTryIntersectWith
    \/ CallTryUnionWith
    \/ CallPreferInclusive
    \/ CallCopy
    \/ CallMakeImmutable
    \/ CallIsUnconstrained
    \/ CallCompare
    \/ CallStartsAfter

Spec == Init /\ [][Next]_vars

(***************************************************************************)
(* SpecSet: Set as a function of its receiver and arguments, over all keys.*)
(***************************************************************************)
NextSet ==
    \/ CallSet({"sp"}, Keys)
    \/ CallMakeImmutable

SpecSet == Init /\ [][NextSet]_vars

(***************************************************************************)
(* SpecAlgebra: the ordering and the interval algebra over every pair of   *)
(* spans a successful Set produces, for a fixed key context.               *)
(***************************************************************************)
InitAlgebra ==
    /\ keyCtx = IntCtx
    /\ spans \in [SpanIds -> Populated(IntCtx, Keys)]
    /\ last = Call("new", "sp", <<>>, Returns(ZeroSpan))

NextAlgebra ==
    \/ CallTryIntersectWith
    \/ CallTryUnionWith
    \/ CallCopy
    \/ CallCompare
    \/ CallCompareStarts
    \/ CallCompareEnds
    \/ CallStartsAfter

SpecAlgebra == InitAlgebra /\ [][NextAlgebra]_vars

(***************************************************************************)
(* The invariants of a span and the vocabulary of the properties.          *)
(***************************************************************************)
\* I1: an empty start key has an inclusive boundary.
I1(sp) == IsEmpty(sp.start) => sp.startBoundary = IncludeBoundary

\* I2: an empty end key has an inclusive boundary.
I2(sp) == IsEmpty(sp.end) => sp.endBoundary = IncludeBoundary

\* I3: the start strictly precedes the end as extended keys.
I3(ctx, sp) == KeyCompare(ctx, sp.start, sp.end, startExt(sp), endExt(sp)) < 0

WellFormed(ctx, sp) == I1(sp) /\ I2(sp) /\ I3(ctx, sp)

Fields(sp) == <<sp.start, sp.startBoundary, sp.end, sp.endBoundary>>

Mutators == {"Set", "TryIntersectWith", "TryUnionWith", "PreferInclusive"}

(***************************************************************************)
(* C1.  Once makeImmutable has been called on a span, every later call of  *)
(* Set, TryIntersectWith, TryUnionWith or PreferInclusive on it panics and *)
(* leaves start, startBoundary, end, endBoundary and the immutable flag as *)
(* they were; no step ever changes a frozen span or clears its flag.       *)
(***************************************************************************)
FreezeImmutability ==
    [][\A id \in SpanIds :
          spans[id].immutable =>
             /\ spans'[id] = spans[id]
             /\ (last'.recv = id /\ last'.op \in Mutators) =>
                   last'.panic = "mutation disallowed"]_vars

\* A mutator was called on a frozen, populated span and panicked.
FrozenMutationPanicked ==
    /\ last.op \in Mutators
    /\ last.panic = "mutation disallowed"
    /\ spans[last.recv].immutable
    /\ ~IsUnconstrained(spans[last.recv])

(***************************************************************************)
(* C2.  Every call of Set that panics leaves the span's start,             *)
(* startBoundary, end and endBoundary as they were before the call.        *)
(***************************************************************************)
SetPanicLeavesSpanUnchanged ==
    [][(last'.op = "Set" /\ last'.panic # NoPanic) =>
          Fields(spans'[last'.recv]) = Fields(spans[last'.recv])]_vars

(***************************************************************************)
(* C3.  On an unfrozen span, Set panics exactly when both keys are empty,  *)
(* or the start is empty and exclusive, or the end is empty and exclusive, *)
(* or the start does not strictly precede the end as extended keys;        *)
(* otherwise the span holds the four given values and satisfies I1-I3.     *)
(***************************************************************************)
\* The arguments the claim says Set refuses.
Refused(ctx, start, sb, end, eb) ==
    \/ IsEmpty(start) /\ IsEmpty(end)
    \/ IsEmpty(start) /\ sb = ExcludeBoundary
    \/ IsEmpty(end) /\ eb = ExcludeBoundary
    \/ KeyCompare(ctx, start, end, sb, ~eb) >= 0

\* C3: Set on an unfrozen span panics exactly on the refused arguments, and
\* otherwise stores the four values, which satisfy I1-I3.
SetEnforcesInvariants ==
    [][LET r == last'.recv
           start == last'.args[1]
           sb == last'.args[2]
           end == last'.args[3]
           eb == last'.args[4]
       IN  (last'.op = "Set" /\ ~spans[r].immutable)
           => IF Refused(keyCtx, start, sb, end, eb)
              THEN last'.panic # NoPanic
              ELSE /\ last'.panic = NoPanic
                   /\ Fields(spans'[r]) = <<start, sb, end, eb>>
                   /\ WellFormed(keyCtx, spans'[r])]_vars

\* Set succeeded with a start key that is a proper prefix of the end key.
SetAcceptedPrefixSpan ==
    /\ last.op = "Set"
    /\ last.panic = NoPanic
    /\ Len(spans["sp"].start) = 1
    /\ Len(spans["sp"].end) = 2
    /\ spans["sp"].end[1] = spans["sp"].start[1]

(***************************************************************************)
(* Starts and ends as extended keys.                                       *)
(***************************************************************************)
StartOf(sp) == <<sp.start, sp.startBoundary>>

EndOf(sp) == <<sp.end, sp.endBoundary>>

\* The start of a against the start of b, as extended keys.
StartVsStart(ctx, a, b) == KeyCompare(ctx, a.start, b.start, startExt(a), startExt(b))

\* The end of a against the end of b, as extended keys.
EndVsEnd(ctx, a, b) == KeyCompare(ctx, a.end, b.end, endExt(a), endExt(b))

\* The end of a against the start of b, as extended keys.
EndVsStart(ctx, a, b) == KeyCompare(ctx, a.end, b.start, endExt(a), startExt(b))

\* The span, of a and b, with the larger start / the smaller end.
LargerStart(ctx, a, b) == IF StartVsStart(ctx, a, b) >= 0 THEN a ELSE b

SmallerStart(ctx, a, b) == IF StartVsStart(ctx, a, b) <= 0 THEN a ELSE b

SmallerEnd(ctx, a, b) == IF EndVsEnd(ctx, a, b) <= 0 THEN a ELSE b

LargerEnd(ctx, a, b) == IF EndVsEnd(ctx, a, b) >= 0 THEN a ELSE b

\* A span literal.
Sp(start, sb, end, eb) ==
    [start |-> start, startBoundary |-> sb, end |-> end, endBoundary |-> eb,
     immutable |-> FALSE]

(***************************************************************************)
(* C4.  For spans A and B satisfying I1-I3, A.TryIntersectWith(B) returns  *)
(* false exactly when the larger of the two starts is >= the smaller of    *)
(* the two ends as extended keys, and then leaves A as it was; otherwise   *)
(* it returns true and A has the larger start and the smaller end.  B is   *)
(* never modified.                                                         *)
(***************************************************************************)
IntersectionIsMaxStartMinEnd ==
    [][LET r == last'.recv
           A == spans[r]
           B == spans[Peer(r)]
           ls == LargerStart(keyCtx, A, B)
           se == SmallerEnd(keyCtx, A, B)
           empty == EndVsStart(keyCtx, se, ls) <= 0
       IN  (/\ last'.op = "TryIntersectWith"
            /\ ~A.immutable
            /\ WellFormed(keyCtx, A)
            /\ WellFormed(keyCtx, B))
           => /\ last'.panic = NoPanic
              /\ last'.ret = ~empty
              /\ empty => spans'[r] = A
              /\ ~empty => /\ StartOf(spans'[r]) = StartOf(ls)
                           /\ EndOf(spans'[r]) = EndOf(se)
              /\ spans'[Peer(r)] = B]_vars

\* An intersection succeeded: the receiver took the argument's start, a
\* two-column key, and kept its own end, which is not the argument's.
IntersectionTookArgumentStart ==
    /\ last.op = "TryIntersectWith"
    /\ last.ret
    /\ StartOf(spans[last.recv]) = StartOf(spans[Peer(last.recv)])
    /\ EndOf(spans[last.recv]) # EndOf(spans[Peer(last.recv)])
    /\ Len(spans[last.recv].start) = 2

(***************************************************************************)
(* C5.  For spans A and B satisfying I1-I3, A.TryUnionWith(B) returns      *)
(* false exactly when the end of the span with the lesser start is         *)
(* strictly less, as an extended key, than the start of the other span,    *)
(* and then leaves A as it was; otherwise it returns true and A has the    *)
(* lesser start and the greater end.  [1-5] union [10-15] is false and     *)
(* leaves [1-5]; [1-5] union [5-10] is true and gives [1-10]; [1-5) union  *)
(* (5-10] is false.                                                        *)
(***************************************************************************)
UnionExamples ==
    /\ TryUnionWith(IntCtx, Sp(<<1>>, IncludeBoundary, <<5>>, IncludeBoundary),
                            Sp(<<10>>, IncludeBoundary, <<15>>, IncludeBoundary))
          = Outcome(Sp(<<1>>, IncludeBoundary, <<5>>, IncludeBoundary), FALSE, 0, NoPanic)
    /\ TryUnionWith(IntCtx, Sp(<<1>>, IncludeBoundary, <<5>>, IncludeBoundary),
                            Sp(<<5>>, IncludeBoundary, <<10>>, IncludeBoundary))
          = Outcome(Sp(<<1>>, IncludeBoundary, <<10>>, IncludeBoundary), TRUE, 0, NoPanic)
    /\ TryUnionWith(IntCtx, Sp(<<1>>, IncludeBoundary, <<5>>, ExcludeBoundary),
                            Sp(<<5>>, ExcludeBoundary, <<10>>, IncludeBoundary))
          = Outcome(Sp(<<1>>, IncludeBoundary, <<5>>, ExcludeBoundary), FALSE, 0, NoPanic)

\* C5: TryUnionWith returns false exactly on a strict gap, leaving the
\* receiver; otherwise the receiver takes the lesser start and the greater end.
UnionIsMinStartMaxEndUnlessGap ==
    [][LET r == last'.recv
           A == spans[r]
           B == spans[Peer(r)]
           first == SmallerStart(keyCtx, A, B)
           second == IF first = A THEN B ELSE A
           gap == EndVsStart(keyCtx, first, second) < 0
       IN  (/\ last'.op = "TryUnionWith"
            /\ ~A.immutable
            /\ WellFormed(keyCtx, A)
            /\ WellFormed(keyCtx, B))
           => /\ last'.panic = NoPanic
              /\ last'.ret = ~gap
              /\ gap => spans'[r] = A
              /\ ~gap => /\ StartOf(spans'[r]) = StartOf(SmallerStart(keyCtx, A, B))
                         /\ EndOf(spans'[r]) = EndOf(LargerEnd(keyCtx, A, B))
              /\ spans'[Peer(r)] = B
              /\ UnionExamples]_vars

\* A union succeeded: the receiver keeps its own start, which is not the
\* argument's, and now ends where the argument ends, at a two-column key.
UnionTookArgumentEnd ==
    /\ last.op = "TryUnionWith"
    /\ last.ret
    /\ EndOf(spans[last.recv]) = EndOf(spans[Peer(last.recv)])
    /\ StartOf(spans[last.recv]) # StartOf(spans[Peer(last.recv)])
    /\ Len(spans[last.recv].end) = 2

(***************************************************************************)
(* C6.  Starting from spans populated by a successful Set, after any       *)
(* sequence of TryIntersectWith, TryUnionWith and Copy calls every span    *)
(* satisfies I1, I2 and I3; a span becomes the unconstrained span [ - ]    *)
(* only by a successful TryUnionWith on it (or as the copy of a span that  *)
(* already is [ - ]), and that call does not panic.                        *)
(***************************************************************************)
AlgebraKeepsSpansWellFormed ==
    /\ [](\A id \in SpanIds : WellFormed(keyCtx, spans[id]))
    /\ [][\A id \in SpanIds :
             (~IsUnconstrained(spans[id]) /\ IsUnconstrained(spans'[id]))
             => /\ last'.panic = NoPanic
                /\ \/ last'.op = "TryUnionWith" /\ last'.recv = id /\ last'.ret
                   \/ /\ last'.op = "Copy"
                      /\ last'.recv = Peer(id)
                      /\ IsUnconstrained(spans[Peer(id)])]_vars

\* A successful union left the receiver unconstrained while the argument is
\* a constrained span.
UnionReachedUnconstrained ==
    /\ last.op = "TryUnionWith"
    /\ last.ret
    /\ IsUnconstrained(spans[last.recv])
    /\ ~IsUnconstrained(spans[Peer(last.recv)])

(***************************************************************************)
(* C7.  PreferInclusive keeps I3: for an unfrozen span satisfying I1-I3    *)
(* over integer keys (Next and Prev defined), the span after               *)
(* PreferInclusive still has its start strictly before its end.            *)
(***************************************************************************)
PreferInclusiveKeepsI3 ==
    [][(/\ last'.op = "PreferInclusive"
        /\ keyCtx = IntCtx
        /\ ~spans[last'.recv].immutable
        /\ WellFormed(keyCtx, spans[last'.recv]))
       => I3(keyCtx, spans'[last'.recv])]_vars

(***************************************************************************)
(* C8.  Intersection is commutative up to value equality: for spans A and  *)
(* B satisfying I1-I3, A.TryIntersectWith(B) and B.Copy().TryIntersectWith *)
(* (A) return the same boolean and, when true, spans with equal start,     *)
(* startBoundary, end and endBoundary.                                     *)
(***************************************************************************)
IntersectionCommutes ==
    [][LET r == last'.recv
           A == spans[r]
           B == spans[Peer(r)]
           ba == TryIntersectWith(keyCtx, Copy(B), A)
       IN  (/\ last'.op = "TryIntersectWith"
            /\ ~A.immutable
            /\ WellFormed(keyCtx, A)
            /\ WellFormed(keyCtx, B))
           => /\ last'.ret = ba.ret
              /\ last'.ret => Fields(spans'[r]) = Fields(ba.sp)]_vars

\* An intersection succeeded with a result that is neither operand: the
\* receiver's start is the argument's and its end is not.
IntersectionOfOverlappingSpans ==
    /\ last.op = "TryIntersectWith"
    /\ last.ret
    /\ StartOf(spans[last.recv]) = StartOf(spans[Peer(last.recv)])
    /\ EndVsEnd(keyCtx, spans[last.recv], spans[Peer(last.recv)]) < 0
    /\ Len(spans[last.recv].end) = 1

(***************************************************************************)
(* C9.  For a fixed key context Compare is a total order on spans:         *)
(* Compare(A,B) = -Compare(B,A), and Compare(A,B) <= 0 and Compare(B,C)    *)
(* <= 0 imply Compare(A,C) <= 0.                                           *)
(***************************************************************************)
\* Every value a span takes under SpecAlgebra.
SpanValues == Populated(IntCtx, Keys) \cup {ZeroSpan}

\* C9: Compare is antisymmetric and transitive.
CompareIsTotalOrder ==
    (last.op = "Compare" /\ last.recv = "sp")
    => LET A == spans["sp"]
           B == spans["other"]
       IN  /\ last.cmp \in {-1, 0, 1}
           /\ last.cmp = -Compare(keyCtx, B, A)
           /\ (last.cmp = 0) = (Fields(A) = Fields(B))
           /\ last.cmp <= 0 =>
                 \A C \in SpanValues :
                    Compare(keyCtx, B, C) <= 0 => Compare(keyCtx, A, C) <= 0

\* Compare found the receiver smaller although it starts at a longer key
\* with the same first column as the argument's start.
CompareOrderedPrefixStarts ==
    /\ last.op = "Compare"
    /\ last.recv = "sp"
    /\ last.cmp = -1
    /\ Len(spans["sp"].start) = 2
    /\ Len(spans["other"].start) = 1
    /\ spans["sp"].start[1] = spans["other"].start[1]

(***************************************************************************)
(* C10.  A start extends Low when inclusive and High when exclusive, an    *)
(* end extends High when inclusive and Low when exclusive; so for every    *)
(* key k a span starting [k orders strictly before a span starting (k with *)
(* the same end (CompareStarts and Compare return -1), and a span ending   *)
(* k) orders strictly before a span ending k] with the same start          *)
(* (CompareEnds and Compare return -1).                                    *)
(***************************************************************************)
BoundariesMapToExtensions ==
    LET A == spans[last.recv]
        B == spans[Peer(last.recv)]
    IN  /\ \A id \in SpanIds :
              /\ startExt(spans[id]) =
                    (IF spans[id].startBoundary = IncludeBoundary THEN ExtendLow ELSE ExtendHigh)
              /\ endExt(spans[id]) =
                    (IF spans[id].endBoundary = IncludeBoundary THEN ExtendHigh ELSE ExtendLow)
        /\ (/\ last.op \in {"CompareStarts", "Compare"}
            /\ A.start = B.start
            /\ A.startBoundary = IncludeBoundary
            /\ B.startBoundary = ExcludeBoundary
            /\ EndOf(A) = EndOf(B))
           => last.cmp = -1
        /\ (/\ last.op \in {"CompareEnds", "Compare"}
            /\ A.end = B.end
            /\ A.endBoundary = ExcludeBoundary
            /\ B.endBoundary = IncludeBoundary
            /\ StartOf(A) = StartOf(B))
           => last.cmp = -1

\* CompareEnds was asked about k) against k] with the same start and k a
\* two-column key.
ComparedExclusiveWithInclusiveEnd ==
    /\ last.op = "CompareEnds"
    /\ last.cmp = -1
    /\ spans[last.recv].end = spans[Peer(last.recv)].end
    /\ Len(spans[last.recv].end) = 2
    /\ spans[last.recv].endBoundary = ExcludeBoundary
    /\ spans[Peer(last.recv)].endBoundary = IncludeBoundary
    /\ StartOf(spans[last.recv]) = StartOf(spans[Peer(last.recv)])

(***************************************************************************)
(* C11.  PreferInclusive normalizes each side independently: an exclusive  *)
(* start whose key has a Next becomes Next(start), inclusive, and is left  *)
(* alone otherwise; an exclusive end whose key has a Prev becomes          *)
(* Prev(end), inclusive, and is left alone otherwise; an inclusive side is *)
(* never changed.  On integers (1 - 5) becomes [2 - 4]; where Prev is      *)
(* missing the end stays exclusive although the start is converted.        *)
(***************************************************************************)
PreferInclusiveExamples ==
    /\ PreferInclusive(IntCtx, Sp(<<1>>, ExcludeBoundary, <<5>>, ExcludeBoundary))
          = Returns(Sp(<<2>>, IncludeBoundary, <<4>>, IncludeBoundary))
    /\ PreferInclusive(StringCtx, Sp(<<1>>, ExcludeBoundary, <<5>>, ExcludeBoundary))
          = Returns(Sp(<<2>>, IncludeBoundary, <<5>>, ExcludeBoundary))
    /\ PreferInclusive(DecimalCtx, Sp(<<1>>, ExcludeBoundary, <<5>>, ExcludeBoundary))
          = Returns(Sp(<<1>>, ExcludeBoundary, <<5>>, ExcludeBoundary))

CopyIsIndependent ==
    [][LET r == last'.recv
       IN  /\ last'.op = "Copy" =>
                /\ last'.panic = NoPanic
                /\ Fields(spans'[Peer(r)]) = Fields(spans[r])
                /\ ~spans'[Peer(r)].immutable
                /\ spans'[r] = spans[r]
           /\ last'.op \in Mutators => spans'[Peer(r)] = spans[Peer(r)]]_vars

\* A call on the unfrozen copy of a frozen span went through and left the
\* copy with other bounds than the frozen span's.
CopyOfFrozenSpanMutated ==
    /\ last.op \in {"TryIntersectWith", "TryUnionWith", "PreferInclusive"}
    /\ last.panic = NoPanic
    /\ ~spans[last.recv].immutable
    /\ spans[Peer(last.recv)].immutable
    /\ ~IsUnconstrained(spans[Peer(last.recv)])
    /\ Fields(spans[last.recv]) # Fields(spans[Peer(last.recv)])

(***************************************************************************)
(* C13.  StartsAfter agrees with intersection: for spans A and B           *)
(* satisfying I1-I3, A.StartsAfter(B) is true exactly when A's start is    *)
(* >= B's end as extended keys; A.Copy().TryIntersectWith(B) returns false *)
(* if and only if A.StartsAfter(B) or B.StartsAfter(A); the two are never  *)
(* both true; and StartsAfter modifies neither span.                       *)
(***************************************************************************)
StartsAfterAgreesWithIntersection ==
    [][LET r == last'.recv
           A == spans[r]
           B == spans[Peer(r)]
           ba == StartsAfter(keyCtx, B, A)
       IN  (/\ last'.op = "StartsAfter"
            /\ WellFormed(keyCtx, A)
            /\ WellFormed(keyCtx, B))
           => /\ last'.panic = NoPanic
              /\ last'.ret = (EndVsStart(keyCtx, B, A) <= 0)
              /\ (~TryIntersectWith(keyCtx, Copy(A), B).ret) = (last'.ret \/ ba)
              /\ ~(last'.ret /\ ba)
              /\ spans' = spans]_vars

\* StartsAfter answered true for a receiver that starts at the very key, of
\* two columns, where the argument ends.
StartsAfterTouchingSpan ==
    /\ last.op = "StartsAfter"
    /\ last.ret
    /\ spans[last.recv].start = spans[Peer(last.recv)].end
    /\ Len(spans[last.recv].start) = 2

====
